---- MODULE Spec2Model ----
(***************************************************************************)
(* A model of the book library of eeeurico/library: the spreadsheet-backed *)
(* record store of src/src/lib/sheets.ts with the request handlers that    *)
(* drive it, and the aggregated catalogue search (searchBooks).            *)
(*                                                                         *)
(* The sheet is a sequence of rows, row 1 being the header; a row is a     *)
(* sequence of cells.  The fifteen columns the code writes in fixed order  *)
(* (sheets.ts 1038-1054) are projected onto id, isbn, title, author and    *)
(* forsale: the other ten are copied cell by cell exactly like isbn.       *)
(***************************************************************************)
EXTENDS Integers, Sequences, FiniteSets, TLC

VARIABLES sheet, genCount, last, procs, search, cover, listed, import

vars == <<sheet, genCount, last, procs, search, cover, listed, import>>
storeVars == <<sheet, genCount, last, procs, listed, import>>

(***************************************************************************)
(* Bounds of the model.                                                    *)
(***************************************************************************)
\* data rows appended to the sheet by the add handler
MaxRows == 2
\* identifiers minted and persisted by generateBookId
MaxGen == 2

(***************************************************************************)
(* Values.  A JavaScript value that is undefined/absent is Undef; every    *)
(* other cell or field is a string.                                        *)
(***************************************************************************)
Undef == "<undefined>"
BoolFalse == "<false>"
BoolTrue == "<true>"

\* x || ""
OrEmpty(x) == IF x \in {Undef, "", BoolFalse} THEN "" ELSE x

\* String.prototype.trim over the strings of the model: " " is the only
\* whitespace-only string.
Trim(s) == IF s = " " THEN "" ELSE s

\* String.prototype.toLowerCase over the header names of the model
toLowerCase(h) == IF h = "ID" THEN "id" ELSE IF h = "T1" THEN "t1" ELSE h

\* the JavaScript truthiness of a field
Truthy(x) == x \notin {Undef, "", BoolFalse}

FullHeader == <<"id", "isbn", "title", "author", "forsale">>
LegacyHeader == <<"isbn", "title", "author">>
Fields == {"id", "isbn", "title", "author", "forsale"}

\* the identifiers generateBookId mints, in the order it mints them: the
\* base-36 timestamp and random suffix make each one new
GenPool == <<"g1", "g2", "g3", "g4", "g5", "g6">>
\* the identifiers getBooks synthesizes for rows without one, per read
\* (epoch) and per position: never persisted, new at every read
SynthPool == << <<"r1s1", "r1s2", "r1s3", "r1s4", "r1s5", "r1s6">>,
                <<"r2s1", "r2s2", "r2s3", "r2s4", "r2s5", "r2s6">> >>
\* an identifier synthesized by some earlier read, still held by a client
StaleSynth == "r0s1"
\* identifiers a client supplies itself (handleManualAdd)
ClientIds == {"c1"}

Max(a, b) == IF a >= b THEN a ELSE b

Cell(row, j) == IF j >= 1 /\ j <= Len(row) THEN row[j] ELSE ""

RECURSIVE TrimRow(_)
\* values.get drops a row's trailing empty cells
TrimRow(row) ==
  IF Len(row) > 0 /\ row[Len(row)] = ""
  THEN TrimRow(SubSeq(row, 1, Len(row) - 1))
  ELSE row

RECURSIVE TrimSheet(_)
\* values.get drops the trailing empty rows
TrimSheet(sh) ==
  IF Len(sh) > 0 /\ sh[Len(sh)] = <<>>
  THEN TrimSheet(SubSeq(sh, 1, Len(sh) - 1))
  ELSE sh

(***************************************************************************)
(* The spreadsheet service: each call below is one atomic request.         *)
(***************************************************************************)
\* spreadsheets.values.update of one row, RAW: the cells of columns
\* 1..Len(vals) of row r are overwritten, the cells to their right are kept
valuesUpdate(sh, r, vals) ==
  LET padded == IF r > Len(sh)
                THEN sh \o [i \in 1..(r - Len(sh)) |-> <<>>]
                ELSE sh
      old == padded[r]
      new == TrimRow(vals \o SubSeq(old, Len(vals) + 1, Len(old)))
  IN TrimSheet([padded EXCEPT ![r] = new])

\* spreadsheets.values.append: one row after the last row of the table
valuesAppend(sh, vals) == TrimSheet(sh) \o <<TrimRow(vals)>>

\* deleteDimension with startIndex r, endIndex r + 1: the 1-based index taken
\* for the 0-based one, so that the row below the target is removed
deleteDimensionOneBelow(sh, r) ==
  IF r >= 1 /\ r + 1 <= Len(sh)
  THEN TrimSheet(SubSeq(sh, 1, r) \o SubSeq(sh, r + 2, Len(sh)))
  ELSE sh

\* batchUpdate deleteDimension ROWS [r-1, r): the 1-based row r is removed
\* and the rows below it move up
deleteDimension(sh, r) ==
  IF r >= 1 /\ r <= Len(sh)
  THEN TrimSheet(SubSeq(sh, 1, r - 1) \o SubSeq(sh, r + 1, Len(sh)))
  ELSE sh

\* batchUpdate insertDimension COLUMNS [0, 1): an empty leading column
insertDimension(sh) ==
  [i \in 1..Len(sh) |-> IF sh[i] = <<>> THEN <<>> ELSE <<"">> \o sh[i]]

(***************************************************************************)
(* The record store adapter (src/src/lib/sheets.ts).                       *)
(***************************************************************************)
\* generateBookId without its timestamp and random suffix: the same
\* identifier at every call
generateBookIdFixed(n) == GenPool[1]

\* generateBookId: the n-th identifier minted
generateBookId(n) == GenPool[n]

\* headers.findIndex((h) => h.toLowerCase() === "id"), 1-based, 0 for -1
idColumnIndex(headers) ==
  IF \E j \in 1..Len(headers) : toLowerCase(headers[j]) = "id"
  THEN CHOOSE j \in 1..Len(headers) :
         /\ toLowerCase(headers[j]) = "id"
         /\ \A k \in 1..(j - 1) : toLowerCase(headers[k]) # "id"
  ELSE 0

\* headers.forEach((h, j) => book[h] = row[j] || ""): the field named name
\* of a row, the last column of that name winning, Undef without such a column
FieldOf(headers, row, name) ==
  LET cols == {j \in 1..Len(headers) : headers[j] = name}
  IN IF cols = {} THEN Undef
     ELSE Cell(row, CHOOSE j \in cols : \A k \in cols : k <= j)

\* the record getBooks builds from sheet row i (1-based, header = row 1)
RowBook(sh, i, epoch) ==
  LET id0 == FieldOf(sh[1], sh[i], "id")
  IN [id |-> IF ~Truthy(id0) \/ Trim(id0) = ""
             THEN SynthPool[epoch][i] ELSE id0,
      isbn |-> FieldOf(sh[1], sh[i], "isbn"),
      title |-> FieldOf(sh[1], sh[i], "title"),
      author |-> FieldOf(sh[1], sh[i], "author"),
      forsale |-> FieldOf(sh[1], sh[i], "forsale"),
      sheetRowIndex |-> i]

\* a filter that drops a row only when it has neither title nor author
HasTitleOrAuthor(book) ==
  \/ (Truthy(book.title) /\ Trim(book.title) # "")
  \/ (Truthy(book.author) /\ Trim(book.author) # "")

\* getBooks keeps a row only with a title and an author
HasTitleAndAuthor(book) ==
  /\ Truthy(book.title) /\ Trim(book.title) # ""
  /\ Truthy(book.author) /\ Trim(book.author) # ""

\* getBooks: the records of the sheet, in row order; epoch names the read
getBooks(sh, epoch) ==
  IF Len(sh) = 0 THEN <<>>
  ELSE SelectSeq([i \in 1..(Len(sh) - 1) |-> RowBook(sh, i + 1, epoch)],
                 HasTitleAndAuthor)

\* books.findIndex((book) => book.id === bookId), 1-based, 0 for -1
findIndex(books, bookId) ==
  IF \E k \in 1..Len(books) : books[k].id = bookId
  THEN CHOOSE k \in 1..Len(books) :
         /\ books[k].id = bookId
         /\ \A m \in 1..(k - 1) : books[m].id # bookId
  ELSE 0

\* bookData.forsale !== false ? "TRUE" : "FALSE"
forsaleCell(forsale) == IF forsale # BoolFalse THEN "TRUE" ELSE "FALSE"

\* the row of values updateBookById and addBookWithId write, in column order
bookValues(id, book) ==
  <<OrEmpty(id), OrEmpty(book.isbn), OrEmpty(book.title),
    OrEmpty(book.author), forsaleCell(book.forsale)>>

\* updateBookById's sheetRowIndex for bookId (0: not found): the position of
\* the book in getBooks' list, counted as if no row had been skipped
sheetRowIndexOf(sh, bookId) ==
  LET bookIndex == findIndex(getBooks(sh, 1), bookId) - 1
  IN IF bookIndex = -1 THEN 0 ELSE bookIndex + 1

\* updateBook: writes range A(rowIndex+1):O(rowIndex+1)
updateBook(sh, rowIndex, values) == valuesUpdate(sh, rowIndex + 1, values)

\* updateBookById, read and write in one step
updateBookById(sh, bookId, bookData) ==
  LET r == sheetRowIndexOf(sh, bookId)
  IN IF r = 0 THEN [result |-> "NotFound", sheet |-> sh]
     ELSE [result |-> "ok",
           sheet |-> updateBook(sh, r, bookValues(bookData.id, bookData))]

\* deleteBookById's targetRowIndex for bookId: the 1-based row of the first
\* row whose id cell is bookId (0: none)
targetRowIndexOf(sh, bookId) ==
  LET c == idColumnIndex(sh[1])
      hits == {i \in 2..Len(sh) : Cell(sh[i], c) = bookId}
  IN IF hits = {} THEN 0 ELSE CHOOSE i \in hits : \A k \in hits : i <= k

\* the error deleteBookById throws before it deletes ("ok": none)
deleteError(sh, bookId) ==
  IF Len(sh) = 0 THEN "SheetEmpty"
  ELSE IF idColumnIndex(sh[1]) = 0 THEN "NoIdColumn"
  ELSE IF targetRowIndexOf(sh, bookId) = 0 THEN "NotFound"
  ELSE "ok"

\* deleteBookById, read and delete in one step
deleteBookById(sh, bookId) ==
  LET e == deleteError(sh, bookId)
  IN IF e # "ok" THEN [result |-> e, sheet |-> sh]
     ELSE [result |-> "ok",
           sheet |-> deleteDimension(sh, targetRowIndexOf(sh, bookId))]

\* addBookWithId's schema step: the sheet once an id column exists
ensureIdColumn(sh) ==
  LET headers == IF Len(sh) = 0 THEN <<>> ELSE sh[1]
  IN IF idColumnIndex(headers) # 0 THEN sh
     ELSE IF Len(headers) = 0 THEN valuesUpdate(sh, 1, FullHeader)
     ELSE valuesUpdate(insertDimension(sh), 1, <<"id">>)

\* addBook: appends the values as one row
addBook(sh, values) == valuesAppend(sh, values)

\* addBookWithId with the identifier id (book.id || generateBookId(...)):
\* the sheet it leaves and the bookWithId it returns
addBookWithId(sh, id, book) ==
  [sheet |-> addBook(ensureIdColumn(sh), bookValues(id, book)),
   book |-> [book EXCEPT !.id = id]]

(***************************************************************************)
(* Inputs of the requests.                                                 *)
(***************************************************************************)
\* the identifiers a request may name
ReqIds == {GenPool[n] : n \in 1..MaxGen} \cup ClientIds

\* the books of the requests: a complete one, one without isbn, one without
\* author and one without title
BookFields ==
  { [isbn |-> "i1", title |-> "t1", author |-> "a1", forsale |-> Undef],
    [isbn |-> Undef, title |-> "t1", author |-> "a1", forsale |-> Undef],
    [isbn |-> "i1", title |-> "t1", author |-> Undef, forsale |-> Undef],
    [isbn |-> Undef, title |-> Undef, author |-> "a1", forsale |-> Undef] }

WithId(b, id) ==
  [id |-> id, isbn |-> b.isbn, title |-> b.title, author |-> b.author,
   forsale |-> b.forsale]

\* the request bodies: a book with or without an id
BookIn(ids) == {WithId(b, id) : b \in BookFields, id \in ids}

\* the sheets a deployment starts from: no sheet content at all, a sheet
\* with the current header, and a sheet from before the id column
InitSheets ==
  { <<>>, <<FullHeader>>, <<LegacyHeader, <<"i1", "t1", "a1">> >> }

\* a request handler not running: no request, nothing read yet
NoBook ==
  [id |-> Undef, isbn |-> Undef, title |-> Undef, author |-> Undef,
   forsale |-> Undef]
\* what a handler that ends with `result` has done to the table: the routes
\* answer 400 before calling the adapter, the adapter reads before it throws,
\* and writes before it returns
TableAccess(result) ==
  CASE result = "BadRequest" -> {}
    [] result = "ok" -> {"read", "write"}
    [] OTHER -> {"read"}

Idle == [pc |-> "idle", id |-> Undef, bookData |-> NoBook, row |-> 0]
Procs == {1, 2}

\* undefined and null among the strings of the cover functions
UndefS == <<"<undefined>">>
NullS == <<"<null>">>

\* no cover being resolved
NoCover ==
  [pc |-> "idle", fn |-> "none", isbn |-> UndefS, title |-> UndefS,
   author |-> UndefS, googleCoverUrl |-> UndefS, urls |-> <<>>, i |-> 0,
   tried |-> <<>>, uploaded |-> NullS, probed |-> <<>>, result |-> NullS]

\* the search handler not running
NoSearch ==
  [pc |-> "idle", status |-> "none", query |-> Undef, type |-> "general",
   source |-> "google", results |-> <<>>, unique |-> <<>>, out |-> <<>>,
   called |-> {}, failed |-> {}, key |-> ""]

\* no import running
NoImport ==
  [pc |-> "idle", parsedBooks |-> <<>>, existingBooks |-> <<>>,
   existingISBNs |-> {}, added |-> 0, skipped |-> 0, errors |-> 0,
   duplicates |-> <<>>, log |-> <<>>]

Init ==
  /\ sheet \in InitSheets
  /\ genCount = 0
  /\ last = [op |-> "init", id |-> Undef, result |-> "ok", access |-> {}]
  /\ procs = [p \in Procs |-> Idle]
  /\ search = NoSearch
  /\ cover = NoCover
  /\ listed = <<>>
  /\ import = NoImport

(***************************************************************************)
(* The request handlers, each run to completion (one request at a time).   *)
(***************************************************************************)
\* POST add (src/unnamed/part_012 54-73): addBookWithId(SHEET_ID, bookData)
AddLibraryRecord(book) ==
  LET gen == ~Truthy(book.id)
      id == IF gen THEN generateBookId(genCount + 1) ELSE book.id
  IN /\ Len(sheet) <= MaxRows
     /\ gen => genCount < MaxGen
     /\ sheet' = addBookWithId(sheet, id, book).sheet
     /\ genCount' = IF gen THEN genCount + 1 ELSE genCount
     /\ last' = [op |-> "add", id |-> addBookWithId(sheet, id, book).book.id,
                 result |-> "ok",
                 access |-> TableAccess("ok")]
     /\ listed' = <<>>
     /\ UNCHANGED <<procs, search, cover, import>>

\* a delete handler that calls the adapter without looking at the id
DeleteLibraryRecordUnchecked(id) ==
  /\ LET r == deleteBookById(sheet, id)
     IN /\ sheet' = r.sheet
        /\ last' = [op |-> "delete", id |-> id, result |-> r.result,
                    access |-> TableAccess(r.result)]
  /\ listed' = <<>>
  /\ UNCHANGED <<genCount, procs, search, cover, import>>

\* PUT update (src/src/app/api/books/update/route.ts)
UpdateLibraryRecord(bookData) ==
  /\ IF ~Truthy(bookData.id)
     THEN /\ last' = [op |-> "update", id |-> bookData.id,
                      result |-> "BadRequest",
                 access |-> TableAccess("BadRequest")]
          /\ UNCHANGED sheet
     ELSE LET r == updateBookById(sheet, bookData.id, bookData)
          IN /\ sheet' = r.sheet
             /\ last' = [op |-> "update", id |-> bookData.id,
                         result |-> r.result,
                 access |-> TableAccess(r.result)]
  /\ listed' = <<>>
  /\ UNCHANGED <<genCount, procs, search, cover, import>>

\* POST delete by id (src/unnamed/part_006)
DeleteLibraryRecord(id) ==
  /\ IF ~Truthy(id)
     THEN /\ last' = [op |-> "delete", id |-> id, result |-> "BadRequest",
                 access |-> TableAccess("BadRequest")]
          /\ UNCHANGED sheet
     ELSE LET r == deleteBookById(sheet, id)
          IN /\ sheet' = r.sheet
             /\ last' = [op |-> "delete", id |-> id, result |-> r.result,
                 access |-> TableAccess(r.result)]
  /\ listed' = <<>>
  /\ UNCHANGED <<genCount, procs, search, cover, import>>

Next ==
  \/ \E book \in BookIn(ClientIds \cup {Undef}) : AddLibraryRecord(book)
  \/ \E bookData \in BookIn(ReqIds \cup {Undef}) : UpdateLibraryRecord(bookData)
  \/ \E id \in ReqIds \cup {Undef} : DeleteLibraryRecord(id)

Spec == Init /\ [][Next]_vars

(***************************************************************************)
(* Vocabulary of the properties.                                           *)
(***************************************************************************)
\* the id cell of sheet row i ("" when the header has no id column)
IdCell(sh, i) ==
  IF Len(sh) = 0 \/ idColumnIndex(sh[1]) = 0 THEN ""
  ELSE Cell(sh[i], idColumnIndex(sh[1]))

\* the data rows whose id cell is id
RowsWithId(sh, id) == {i \in 2..Len(sh) : IdCell(sh, i) = id}

RowAt(sh, i) == IF i >= 1 /\ i <= Len(sh) THEN sh[i] ELSE <<>>

\* the rows whose contents differ between two sheets, position by position
ChangedRows(sh1, sh2) ==
  {i \in 1..Max(Len(sh1), Len(sh2)) : RowAt(sh1, i) # RowAt(sh2, i)}

\* sh without its row i
RemoveAt(sh, i) == SubSeq(sh, 1, i - 1) \o SubSeq(sh, i + 1, Len(sh))

DataRowCount(sh) == Max(Len(sh) - 1, 0)

\* GET /api/books: forsale "TRUE", true or undefined reads as true
forsaleRead(forsale) == forsale = "TRUE" \/ forsale = BoolTrue \/ forsale = Undef

\* listLibrary: GET /api/books, getBooks with forsale as a boolean; two
\* reads are two epochs
listLibrary(sh, epoch) ==
  LET books == getBooks(sh, epoch)
  IN [k \in 1..Len(books) |->
        [books[k] EXCEPT !.forsale = forsaleRead(books[k].forsale)]]

ListedIds(books) == {books[k].id : k \in 1..Len(books)}

\* the positions of the listed records keyed id
ListedAt(books, id) == {k \in 1..Len(books) : books[k].id = id}

\* the listed record b carries the fields of book, keyed id
ListedAs(b, id, book) ==
  /\ b.id = id
  /\ b.isbn = OrEmpty(book.isbn)
  /\ b.title = OrEmpty(book.title)
  /\ b.author = OrEmpty(book.author)
  /\ b.forsale = (book.forsale # BoolFalse)

Thrown == {"NotFound", "SheetEmpty", "NoIdColumn"}

UpdateInputs == BookIn(ReqIds \cup {Undef})
AddInputs == BookIn(ClientIds \cup {Undef})
DeleteInputs == ReqIds \cup {Undef}

(***************************************************************************)
(* C1: updateRecord(id, fullRecord) modifies at most one row, a row whose  *)
(* id column equals id, and fails (sheet untouched) when no row's id       *)
(* column equals id.                                                       *)
(***************************************************************************)
C1_UpdateOnlyRowWithId ==
  [][\A bookData \in UpdateInputs :
       (UpdateLibraryRecord(bookData) /\ Truthy(bookData.id)) =>
         /\ Cardinality(ChangedRows(sheet, sheet')) <= 1
         /\ ChangedRows(sheet, sheet') \subseteq RowsWithId(sheet, bookData.id)
         /\ RowsWithId(sheet, bookData.id) = {} =>
              (last'.result = "NotFound" /\ sheet' = sheet)]_vars

(***************************************************************************)
(* C2: after updateLibraryRecord(id, modified) succeeds, with modified a   *)
(* record the store lists (title and author present), listLibrary()        *)
(* returns modified under id: some listed record is keyed id, and every    *)
(* listed record keyed id carries the modified fields.                     *)
(***************************************************************************)
C2_UpdateThenListReturnsModified ==
  [][\A bookData \in UpdateInputs :
       (/\ UpdateLibraryRecord(bookData)
        /\ last'.result = "ok"
        /\ HasTitleAndAuthor(bookData)) =>
         LET books == listLibrary(sheet', 2)
         IN /\ ListedAt(books, bookData.id) # {}
            /\ \A k \in ListedAt(books, bookData.id) :
                 ListedAs(books[k], bookData.id, bookData)]_vars

C4_DeleteThenListKeepsOthers ==
  [][\A id \in DeleteInputs :
       (DeleteLibraryRecord(id) /\ last'.result = "ok") =>
         LET before == ListedIds(listLibrary(sheet, 1))
             after == ListedIds(listLibrary(sheet', 2))
         IN /\ id \notin after
            /\ (before \ {id}) \subseteq after]_vars

(***************************************************************************)
(* C5 as stated: addLibraryRecord(record) without an id returns the record *)
(* with a non-empty generated id and the isbn as given, appends exactly    *)
(* one row, and listLibrary() then has exactly one record with that id.    *)
(***************************************************************************)
AddedOneRow(sh1, sh2, id, book) ==
  /\ DataRowCount(sh2) = DataRowCount(sh1) + 1
  /\ IdCell(sh2, Len(sh2)) = id
  /\ Cell(sh2[Len(sh2)], 2) = OrEmpty(book.isbn)
  /\ Cell(sh2[Len(sh2)], 3) = OrEmpty(book.title)
  /\ Cell(sh2[Len(sh2)], 4) = OrEmpty(book.author)
  /\ \A i \in 2..Len(sh1) : IdCell(sh2, i) = IdCell(sh1, i)

\* what the add handler answers for a book sent without id
AddAnswer(book) ==
  addBookWithId(sheet, generateBookId(genCount + 1), book).book

C5_Original ==
  [][\A book \in BookIn({Undef}) :
       AddLibraryRecord(book) =>
         /\ last'.id = AddAnswer(book).id
         /\ Truthy(last'.id) /\ last'.id \in {GenPool[n] : n \in 1..Len(GenPool)}
         /\ AddAnswer(book).isbn = book.isbn
         /\ AddedOneRow(sheet, sheet', last'.id, book)
         /\ Cardinality(ListedAt(listLibrary(sheet', 1), last'.id)) = 1]_vars

(***************************************************************************)
(* C5 amended: as above, the listing holding exactly one record with the   *)
(* new id when the record has a title and an author; a record missing      *)
(* either is stored but not listed.                                        *)
(***************************************************************************)
C5_AddThenListedOnce ==
  [][\A book \in BookIn({Undef}) :
       AddLibraryRecord(book) =>
         /\ last'.id = AddAnswer(book).id
         /\ Truthy(last'.id) /\ last'.id \in {GenPool[n] : n \in 1..Len(GenPool)}
         /\ AddAnswer(book).isbn = book.isbn
         /\ AddedOneRow(sheet, sheet', last'.id, book)
         /\ Cardinality(ListedAt(listLibrary(sheet', 1), last'.id))
              = IF HasTitleAndAuthor(book) THEN 1 ELSE 0]_vars

\* a record was added under a generated id and is listed exactly once
C5_Witness ==
  /\ last.op = "add" /\ genCount >= 1 /\ last.id = GenPool[genCount]
  /\ Len(sheet) >= 3
  /\ Cardinality(ListedAt(listLibrary(sheet, 1), last.id)) = 1

(***************************************************************************)
(* C6: no two rows of the store carry the same non-empty id.               *)
(***************************************************************************)
C6_IdsUnique ==
  \A i, j \in 2..Len(sheet) :
    (i # j /\ IdCell(sheet, i) # "") => IdCell(sheet, i) # IdCell(sheet, j)

(***************************************************************************)
(* Concurrent requests.  A handler is a sequence of awaited calls to the   *)
(* spreadsheet service; between two of them the calls of another request   *)
(* may run.  updateBookById reads (getBooks) and then writes (updateBook); *)
(* deleteBookById reads (values.get) and then deletes (batchUpdate).       *)
(* Two requests in flight at once name different ids.                      *)
(***************************************************************************)
\* data rows of the sheet the concurrent requests start from
MaxConcRows == 3

ConcIds == {GenPool[n] : n \in 1..MaxConcRows}

\* a sheet of complete records, one per generated id
ConcSheet ==
  <<FullHeader>> \o
  [n \in 1..MaxConcRows |-> <<GenPool[n], "i1", "t1", "a1", "TRUE">>]

InitConc ==
  /\ sheet = ConcSheet
  /\ genCount = MaxConcRows
  /\ last = [op |-> "init", id |-> Undef, result |-> "ok", access |-> {}]
  /\ procs = [p \in Procs |-> Idle]
  /\ search = NoSearch
  /\ cover = NoCover
  /\ listed = <<>>
  /\ import = NoImport

\* the records the concurrent updates send: complete ones, which getBooks
\* lists, so that no row is ever skipped
ConcBooks == {WithId(b, id) : b \in {f \in BookFields : HasTitleAndAuthor(f)},
                              id \in ConcIds}

\* no other request in flight names id
NotTargeted(p, id) ==
  \A q \in Procs \ {p} : procs[q].pc = "idle" \/ procs[q].id # id

\* updateBookById up to its await of getBooks
UpdateRead(p, bookData) ==
  /\ procs[p].pc = "idle"
  /\ NotTargeted(p, bookData.id)
  /\ LET r == sheetRowIndexOf(sheet, bookData.id)
     IN IF r = 0
        THEN /\ last' = [op |-> "update", id |-> bookData.id,
                         result |-> "NotFound",
                 access |-> TableAccess("NotFound")]
             /\ UNCHANGED procs
        ELSE /\ procs' = [procs EXCEPT ![p] =
                            [pc |-> "updateBook", id |-> bookData.id,
                             bookData |-> bookData, row |-> r]]
             /\ UNCHANGED last
  /\ listed' = <<>>
  /\ UNCHANGED <<sheet, genCount, search, cover, import>>

\* updateBookById's await of updateBook, at the row index read earlier
UpdateWrite(p) ==
  /\ procs[p].pc = "updateBook"
  /\ sheet' = updateBook(sheet, procs[p].row,
                         bookValues(procs[p].id, procs[p].bookData))
  /\ last' = [op |-> "update", id |-> procs[p].id, result |-> "ok",
              access |-> TableAccess("ok")]
  /\ procs' = [procs EXCEPT ![p] = Idle]
  /\ listed' = <<>>
  /\ UNCHANGED <<genCount, search, cover, import>>

\* deleteBookById up to its await of values.get
DeleteRead(p, id) ==
  /\ procs[p].pc = "idle"
  /\ NotTargeted(p, id)
  /\ IF deleteError(sheet, id) # "ok"
     THEN /\ last' = [op |-> "delete", id |-> id,
                      result |-> deleteError(sheet, id),
                 access |-> TableAccess(deleteError(sheet, id))]
          /\ UNCHANGED procs
     ELSE /\ procs' = [procs EXCEPT ![p] =
                         [pc |-> "deleteDimension", id |-> id,
                          bookData |-> NoBook,
                          row |-> targetRowIndexOf(sheet, id)]]
          /\ UNCHANGED last
  /\ listed' = <<>>
  /\ UNCHANGED <<sheet, genCount, search, cover, import>>

\* deleteBookById's await of batchUpdate, at the row index read earlier
DeleteWrite(p) ==
  /\ procs[p].pc = "deleteDimension"
  /\ sheet' = deleteDimension(sheet, procs[p].row)
  /\ last' = [op |-> "delete", id |-> procs[p].id, result |-> "ok",
              access |-> TableAccess("ok")]
  /\ procs' = [procs EXCEPT ![p] = Idle]
  /\ listed' = <<>>
  /\ UNCHANGED <<genCount, search, cover, import>>

NextConc ==
  \E p \in Procs :
    \/ \E bookData \in ConcBooks : UpdateRead(p, bookData)
    \/ UpdateWrite(p)
    \/ \E id \in ConcIds : DeleteRead(p, id)
    \/ DeleteWrite(p)

SpecConc == InitConc /\ [][NextConc]_vars

(***************************************************************************)
(* C7: in any interleaving of updateRecord(id, ...) or deleteRecord(id)    *)
(* with concurrent requests on other ids, the row overwritten or removed   *)
(* is one whose id column equals id, never a row with another id.          *)
(***************************************************************************)
C7_ConcurrentWriteHitsOwnRow ==
  [][\A p \in Procs :
       /\ UpdateWrite(p) =>
            ChangedRows(sheet, sheet') \subseteq RowsWithId(sheet, procs[p].id)
       /\ DeleteWrite(p) =>
            \/ sheet' = sheet
            \/ \E i \in RowsWithId(sheet, procs[p].id) :
                 sheet' = RemoveAt(sheet, i)]_vars

(***************************************************************************)
(* Search aggregator: GET /api/books/search and searchBooks.               *)
(* A candidate is the part of a result the aggregation looks at: isbn,     *)
(* title, author, and the provider that returned it.                       *)
(***************************************************************************)

\* bound: length of the freely chosen part of a provider response
MaxHead == 2

\* &maxResults=10 of the Google Books request
GoogleMaxResults == 10
\* &limit=5 of the Open Library request
OpenLibraryLimit == 5
\* unique.slice(0, 10)
MaxResults == 10

Min(a, b) == IF a <= b THEN a ELSE b

QueryTypes == {"title", "author", "isbn", "general"}
Sources == {"google", "openlibrary", "all"}
\* searchParams.get("q"): null when absent, possibly empty
Queries == {Undef, "", "q"}

\* the language a provider's item carries, fixed by the item's title in
\* this model: a code for t1 and t2, none for the other items. Google Books
\* and ISBN DB give one code, Open Library a list of codes (no list and the
\* empty list behave alike under ?.[0] and ?.includes: both are <<>> here)
ItemLanguage(source, title) ==
  IF source = "Open Library"
  THEN (IF title = "t1" THEN <<"eng">>
        ELSE IF title = "t2" THEN <<"", "dut">> ELSE <<>>)
  ELSE (IF title = "t1" THEN "en"
        ELSE IF title = "t2" THEN "nl" ELSE Undef)

\* Array.prototype.includes over a list of codes
includes(codes, code) == \E k \in 1..Len(codes) : codes[k] = code

\* the language of a Google Books candidate: volumeInfo.language || (...)
googleLanguage(language) ==
  IF Truthy(language) THEN language
  ELSE IF language = "en" THEN "English"
  ELSE IF language = "nl" THEN "Dutch"
  ELSE IF language = "de" THEN "German"
  ELSE IF language = "fr" THEN "French"
  ELSE IF language = "es" THEN "Spanish"
  ELSE IF language = "it" THEN "Italian"
  ELSE IF Truthy(language) THEN language ELSE "Unknown"

\* the language of an Open Library candidate: doc.language?.[0] || (...)
openLibraryLanguage(language) ==
  IF Len(language) > 0 /\ Truthy(language[1])
  THEN language[1]
  ELSE IF includes(language, "eng") THEN "English"
  ELSE IF includes(language, "dut") \/ includes(language, "nld") THEN "Dutch"
  ELSE IF includes(language, "ger") \/ includes(language, "deu") THEN "German"
  ELSE IF includes(language, "fre") \/ includes(language, "fra") THEN "French"
  ELSE IF includes(language, "spa") THEN "Spanish"
  ELSE IF includes(language, "ita") THEN "Italian"
  ELSE "Unknown"

\* the language of an ISBN DB candidate: book.language || "Unknown"
isbnDbLanguage(language) ==
  IF Truthy(language) THEN language ELSE "Unknown"

\* the language field of the bookResult a provider's item becomes
languageOf(source, language) ==
  IF source = "Google Books" THEN googleLanguage(language)
  ELSE IF source = "Open Library" THEN openLibraryLanguage(language)
  ELSE isbnDbLanguage(language)

Candidate(isbn, title, author, source) ==
  [isbn |-> isbn, title |-> title, author |-> author, source |-> source,
   language |-> languageOf(source, ItemLanguage(source, title))]

\* candidates a provider may return that can collide with each other:
\* same isbn under two titles, same title with and without isbn, same title
\* under two authors
HeadCandidates(source) ==
  { Candidate("i1", "t1", "a1", source),
    Candidate("i1", "t2", "a1", source),
    Candidate(Undef, "t2", "a1", source),
    Candidate(Undef, "t2", "a2", source) }

RECURSIVE SeqsUpTo(_, _)
SeqsUpTo(S, n) ==
  IF n = 0 THEN {<<>>}
  ELSE LET shorter == SeqsUpTo(S, n - 1)
       IN shorter \cup {Append(q, x) : q \in {r \in shorter : Len(r) = n - 1}, x \in S}

\* pairwise different candidates completing a response to the requested size
Filler(source, base, n) ==
  [k \in 1..n |->
     Candidate("fi" \o ToString(base + k), "ft" \o ToString(base + k), "a1", source)]

\* a provider response of at most `limit` items
Responses(source, base, limit) ==
  UNION { { h \o Filler(source, base, n) : n \in {0, limit - Len(h)} } :
            h \in SeqsUpTo(HeadCandidates(source), MaxHead) }

GoogleResponses == Responses("Google Books", 0, GoogleMaxResults)
OpenLibraryResponses == Responses("Open Library", GoogleMaxResults, OpenLibraryLimit)
\* isbnDb.book: absent, or one book
IsbnDbResponses == {<<>>} \cup {<<c>> : c \in HeadCandidates("ISBN DB")}

\* process.env.ISBN_DB_API_KEY: unset, or a key
ApiKeys == {Undef, "k"}

shouldSearchGoogle(source) == source \in {"google", "all"}
shouldSearchOpenLibrary(source) == source \in {"openlibrary", "all"}

\* the predicate of self.findIndex: b stands for the same book as `book`
SameBookTitleAuthorOnly(book, b) ==
  book.title = b.title /\ book.author = b.author

SameBook(book, b) ==
  \/ Truthy(book.isbn) /\ Truthy(b.isbn) /\ book.isbn = b.isbn
  \/ book.title = b.title /\ book.author = b.author

\* self.findIndex(pred): the scan from the start that stops at the first
\* element satisfying the predicate (1-based; 0 for -1)
RECURSIVE findIndexFrom(_, _, _)
findIndexFrom(self, book, m) ==
  IF m > Len(self) THEN 0
  ELSE IF SameBook(book, self[m]) THEN m
  ELSE findIndexFrom(self, book, m + 1)

selfFindIndex(self, book) == findIndexFrom(self, book, 1)

\* a filter that compares each candidate with its predecessor only
RECURSIVE FilterFromAdjacent(_, _)
FilterFromAdjacent(self, k) ==
  IF k > Len(self) THEN <<>>
  ELSE (IF k = 1 \/ ~SameBook(self[k], self[k - 1]) THEN <<self[k]>> ELSE <<>>)
         \o FilterFromAdjacent(self, k + 1)

RECURSIVE FilterFrom(_, _)
FilterFrom(self, k) ==
  IF k > Len(self) THEN <<>>
  ELSE (IF k = selfFindIndex(self, self[k]) THEN <<self[k]>> ELSE <<>>)
         \o FilterFrom(self, k + 1)

\* a scan that compares each candidate with the candidates kept so far
RECURSIVE KeptAfter(_, _)
KeptAfter(self, k) ==
  IF k = 0 THEN <<>>
  ELSE LET kept == KeptAfter(self, k - 1)
       IN IF \E m \in 1..Len(kept) : SameBook(self[k], kept[m])
          THEN kept ELSE Append(kept, self[k])

filterUniqueKeptOnly(results) == KeptAfter(results, Len(results))

\* results.filter((book, index, self) => index === self.findIndex(...))
filterUnique(results) == FilterFrom(results, 1)

sliceNone(unique) == unique

\* unique.slice(0, 10)
slice(unique) == SubSeq(unique, 1, Min(Len(unique), MaxResults))

\* searchBooks from the filter on: what the handler returns for `results`
finalResults(results) ==
  [unique |-> filterUnique(results), out |-> slice(filterUnique(results))]

InitSearch ==
  /\ sheet = <<FullHeader>>
  /\ genCount = 0
  /\ last = [op |-> "init", id |-> Undef, result |-> "ok", access |-> {}]
  /\ procs = [p \in Procs |-> Idle]
  /\ search = NoSearch
  /\ cover = NoCover
  /\ listed = <<>>
  /\ import = NoImport

\* GET /api/books/search: 400 without q, otherwise searchBooks starts with
\* an empty results array
SearchStart(query, type, source) ==
  /\ search.pc = "idle"
  /\ IF ~Truthy(query)
     THEN search' = [NoSearch EXCEPT !.pc = "done", !.status = "BadRequest",
                                     !.query = query, !.type = type,
                                     !.source = source]
     ELSE search' = [NoSearch EXCEPT !.pc = "google", !.query = query,
                                     !.type = type, !.source = source]
  /\ UNCHANGED <<storeVars, cover>>

\* 1. Google Books: skipped unless the source asks for it; its items are
\* pushed in order
GoogleBooks(items) ==
  /\ search.pc = "google"
  /\ IF shouldSearchGoogle(search.source)
     THEN search' = [search EXCEPT !.pc = "openlibrary",
                                   !.results = search.results \o items,
                                   !.called = @ \cup {"Google Books"}]
     ELSE search' = [search EXCEPT !.pc = "openlibrary"]
  /\ UNCHANGED <<storeVars, cover>>

\* the Google Books fetch rejects: the outer catch, then the filter
GoogleBooksThrows ==
  /\ search.pc = "google"
  /\ shouldSearchGoogle(search.source)
  /\ search' = [search EXCEPT !.pc = "filter",
                              !.called = @ \cup {"Google Books"},
                              !.failed = @ \cup {"Google Books"}]
  /\ UNCHANGED <<storeVars, cover>>

\* 2. Open Library: skipped for isbn searches and unless the source asks
OpenLibrary(docs) ==
  /\ search.pc = "openlibrary"
  /\ IF shouldSearchOpenLibrary(search.source) /\ search.type # "isbn"
     THEN search' = [search EXCEPT !.pc = "isbndb",
                                   !.results = search.results \o docs,
                                   !.called = @ \cup {"Open Library"}]
     ELSE search' = [search EXCEPT !.pc = "isbndb"]
  /\ UNCHANGED <<storeVars, cover>>

OpenLibraryThrows ==
  /\ search.pc = "openlibrary"
  /\ shouldSearchOpenLibrary(search.source) /\ search.type # "isbn"
  /\ search' = [search EXCEPT !.pc = "filter",
                              !.called = @ \cup {"Open Library"},
                              !.failed = @ \cup {"Open Library"}]
  /\ UNCHANGED <<storeVars, cover>>

\* 3. ISBN DB, for isbn searches that include Google. The request carries
\* process.env.ISBN_DB_API_KEY || "" as Authorization; without a key the
\* provider answers without a book
IsbnDb(key, book) ==
  /\ search.pc = "isbndb"
  /\ ~Truthy(key) => book = <<>>
  /\ IF shouldSearchGoogle(search.source) /\ search.type = "isbn"
     THEN search' = [search EXCEPT !.pc = "filter",
                                   !.results = search.results \o book,
                                   !.called = @ \cup {"ISBN DB"},
                                   !.key = OrEmpty(key)]
     ELSE search' = [search EXCEPT !.pc = "filter"]
  /\ UNCHANGED <<storeVars, cover>>

\* the ISBN DB fetch rejects: caught inside, results stay as they are
IsbnDbThrows(key) ==
  /\ search.pc = "isbndb"
  /\ shouldSearchGoogle(search.source) /\ search.type = "isbn"
  /\ search' = [search EXCEPT !.pc = "filter",
                              !.called = @ \cup {"ISBN DB"},
                              !.failed = @ \cup {"ISBN DB"},
                              !.key = OrEmpty(key)]
  /\ UNCHANGED <<storeVars, cover>>

\* the filter and the slice, then the 200 response
RemoveDuplicates ==
  /\ search.pc = "filter"
  /\ LET r == finalResults(search.results)
     IN search' = [search EXCEPT !.pc = "done", !.status = "ok",
                                 !.unique = r.unique, !.out = r.out]
  /\ UNCHANGED <<storeVars, cover>>

\* the response has been sent; the next request starts afresh
SearchReturn ==
  /\ search.pc = "done"
  /\ search' = NoSearch
  /\ UNCHANGED <<storeVars, cover>>

NextSearch ==
  \/ \E query \in Queries, type \in QueryTypes, source \in Sources :
       SearchStart(query, type, source)
  \/ \E items \in GoogleResponses : GoogleBooks(items)
  \/ GoogleBooksThrows
  \/ \E docs \in OpenLibraryResponses : OpenLibrary(docs)
  \/ OpenLibraryThrows
  \/ \E key \in ApiKeys, book \in IsbnDbResponses : IsbnDb(key, book)
  \/ \E key \in ApiKeys : IsbnDbThrows(key)
  \/ RemoveDuplicates
  \/ SearchReturn

SpecSearch == InitSearch /\ [][NextSearch]_vars

Answered == search.pc = "done" /\ search.status = "ok"

(***************************************************************************)
(* Vocabulary of the search properties.                                    *)
(***************************************************************************)
ShareIsbn(a, b) == a.isbn \notin {Undef, ""} /\ a.isbn = b.isbn
ShareTitleAuthor(a, b) == a.title = b.title /\ a.author = b.author
Collide(a, b) == ShareIsbn(a, b) \/ ShareTitleAuthor(a, b)

\* left-to-right scan in which a candidate is kept exactly when it collides
\* with no earlier kept candidate
RECURSIVE ReferenceScan(_, _)
ReferenceScan(cands, k) ==
  IF k = 0 THEN <<>>
  ELSE LET kept == ReferenceScan(cands, k - 1)
       IN IF \E m \in 1..Len(kept) : Collide(cands[k], kept[m])
          THEN kept ELSE Append(kept, cands[k])

\* the candidates that collide with no earlier candidate, kept or not
FirstOfTheirKind(cands) ==
  {k \in 1..Len(cands) : \A m \in 1..(k - 1) : ~Collide(cands[k], cands[m])}

\* the subsequence of cands at the indices in K, in order
RECURSIVE Pick(_, _, _)
Pick(cands, K, k) ==
  IF k > Len(cands) THEN <<>>
  ELSE (IF k \in K THEN <<cands[k]>> ELSE <<>>) \o Pick(cands, K, k + 1)

FirstN(q, n) == [k \in 1..(IF Len(q) < n THEN Len(q) ELSE n) |-> q[k]]

(***************************************************************************)
(* C8: in the returned result, no two elements share a non-empty ISBN and  *)
(* no two elements share both title and author.                            *)
(***************************************************************************)
C8_NoTwoResultsCollide ==
  Answered =>
    \A i, j \in 1..Len(search.out) :
      i # j => /\ ~ShareIsbn(search.out[i], search.out[j])
               /\ ~ShareTitleAuthor(search.out[i], search.out[j])

\* a search was answered after dropping a candidate that shared only its
\* ISBN with a kept one, and another that shared only title and author
C8_Witness ==
  /\ Answered
  /\ Len(search.out) >= 2
  /\ \E i, j \in 1..Len(search.results) :
       /\ i < j
       /\ ShareIsbn(search.results[i], search.results[j])
       /\ ~ShareTitleAuthor(search.results[i], search.results[j])
  /\ \E i, j \in 1..Len(search.results) :
       /\ i < j
       /\ ~ShareIsbn(search.results[i], search.results[j])
       /\ ShareTitleAuthor(search.results[i], search.results[j])

(***************************************************************************)
(* C9 as stated: the survivors of deduplication are those of a reference   *)
(* left-to-right scan that keeps a candidate iff no earlier kept candidate *)
(* has an equal non-empty ISBN or an equal (title, author).                *)
(***************************************************************************)
C9_Original ==
  Answered =>
    search.unique = ReferenceScan(search.results, Len(search.results))

(***************************************************************************)
(* C9, amended: a candidate survives deduplication iff no earlier          *)
(* candidate, kept or dropped, has an equal non-empty ISBN or an equal     *)
(* (title, author); survivors keep their order, so of two colliding        *)
(* candidates the later one never survives.                                *)
(***************************************************************************)
C9_FirstOfTheirKindSurvive ==
  Answered =>
    search.unique = Pick(search.results, FirstOfTheirKind(search.results), 1)

\* an answered search where a candidate collided only with an earlier
\* dropped candidate, so the two readings of the scan differ
C9_Witness ==
  /\ Answered
  /\ Len(search.unique) < Len(search.results)
  /\ search.unique # ReferenceScan(search.results, Len(search.results))

(***************************************************************************)
(* C10: the returned result has at most 10 elements, and it is the first   *)
(* 10 of the deduplication survivors: truncation happens after             *)
(* deduplication.                                                          *)
(***************************************************************************)
C10_AtMostTenAfterDedup ==
  Answered =>
    /\ Len(search.out) <= 10
    /\ search.out =
         FirstN(Pick(search.results, FirstOfTheirKind(search.results), 1), 10)

\* more than 10 candidates survived, some of the first 10 candidates were
\* dropped, and 10 were returned
C10_Witness ==
  /\ Answered
  /\ Len(search.unique) > 10
  /\ Len(search.out) = 10
  /\ \E k \in 1..10 : k \notin FirstOfTheirKind(search.results)

(***************************************************************************)
(* C11: deduplicating the candidate list concatenated with itself gives    *)
(* the same result as deduplicating it once, and deduplicating the         *)
(* deduplicated list leaves it unchanged.                                  *)
(***************************************************************************)
C11_DedupIdempotent ==
  Answered =>
    /\ filterUnique(search.results \o search.results) = search.unique
    /\ filterUnique(search.unique) = search.unique

\* an answered search whose candidates came from two providers and where
\* deduplication dropped some but not all of them
C11_Witness ==
  /\ Answered
  /\ \E i, j \in 1..Len(search.results) :
       search.results[i].source # search.results[j].source
  /\ Len(search.unique) >= 2
  /\ Len(search.unique) < Len(search.results)

\* the sources a search of this type and source selection has enabled
EnabledSources(type, source) ==
  (IF source \in {"google", "all"} THEN {"Google Books"} ELSE {})
    \cup (IF source \in {"openlibrary", "all"} /\ type # "isbn"
          THEN {"Open Library"} ELSE {})
    \cup (IF source \in {"google", "all"} /\ type = "isbn"
          THEN {"ISBN DB"} ELSE {})

(***************************************************************************)
(* C12: a source whose call fails contributes nothing and the search still *)
(* answers normally; every enabled source is queried whether or not        *)
(* another source failed, and only enabled sources are queried.            *)
(***************************************************************************)
C12_FailureStopsNoOtherSource ==
  Answered =>
    /\ search.called = EnabledSources(search.type, search.source)
    /\ \A k \in 1..Len(search.results) :
         search.results[k].source \in search.called \ search.failed

(***************************************************************************)
(* C13: without an ISBN DB API key configured, no request is issued to     *)
(* ISBN DB and it contributes no candidate.                                *)
(***************************************************************************)
C13_NoKeyNoIsbnDbCall ==
  (search.pc \in {"filter", "done"} /\ search.key = "") =>
    /\ "ISBN DB" \notin search.called
    /\ \A k \in 1..Len(search.results) : search.results[k].source # "ISBN DB"

(***************************************************************************)
(* All request handlers together, on a one-record table and with provider  *)
(* responses of at most one candidate.                                     *)
(***************************************************************************)
InitRequests ==
  /\ sheet = <<FullHeader, <<GenPool[1], "i1", "t1", "a1", "TRUE">>>>
  /\ genCount = 1
  /\ last = [op |-> "init", id |-> Undef, result |-> "ok", access |-> {}]
  /\ procs = [p \in Procs |-> Idle]
  /\ search = NoSearch
  /\ cover = NoCover
  /\ listed = <<>>
  /\ import = NoImport

OneCandidate(source) == {<<>>, <<Candidate("i1", "t1", "a1", source)>>}

RequestBooks ==
  {WithId([isbn |-> Undef, title |-> "t1", author |-> "a1", forsale |-> Undef], id) :
     id \in ReqIds \cup {Undef, ""}}

NextRequests ==
  \/ \E bookData \in RequestBooks : UpdateLibraryRecord(bookData)
  \/ \E id \in ReqIds \cup {Undef, ""} : DeleteLibraryRecord(id)
  \/ \E query \in Queries, type \in QueryTypes, source \in Sources :
       SearchStart(query, type, source)
  \/ \E items \in OneCandidate("Google Books") : GoogleBooks(items)
  \/ GoogleBooksThrows
  \/ \E docs \in OneCandidate("Open Library") : OpenLibrary(docs)
  \/ OpenLibraryThrows
  \/ \E key \in ApiKeys, book \in OneCandidate("ISBN DB") : IsbnDb(key, book)
  \/ \E key \in ApiKeys : IsbnDbThrows(key)
  \/ RemoveDuplicates
  \/ SearchReturn

SpecRequests == InitRequests /\ [][NextRequests]_vars

(***************************************************************************)
(* C14: a request missing its required input is rejected as BadRequest     *)
(* before any side effect: a search without a query invokes no catalog     *)
(* source, an update or delete without an id neither reads nor writes the  *)
(* table.                                                                  *)
(***************************************************************************)
C14_BadRequestBeforeAnyEffect ==
  [][/\ \A query \in Queries, type \in QueryTypes, source \in Sources :
          (SearchStart(query, type, source) /\ query \in {Undef, ""}) =>
            /\ search'.pc = "done" /\ search'.status = "BadRequest"
            /\ search'.called = {} /\ search'.results = <<>>
            /\ UNCHANGED <<storeVars, cover>>
     /\ \A bookData \in RequestBooks :
          (UpdateLibraryRecord(bookData) /\ bookData.id \in {Undef, ""}) =>
            /\ last'.result = "BadRequest" /\ last'.access = {}
            /\ sheet' = sheet
     /\ \A id \in {Undef, ""} :
          DeleteLibraryRecord(id) =>
            /\ last'.result = "BadRequest" /\ last'.access = {}
            /\ sheet' = sheet
     /\ search.status = "BadRequest" => search.called = {}]_vars

\* a search without a query and a delete without an id have both been
\* rejected, and the record is still in the table
C14_Witness ==
  /\ search.status = "BadRequest"
  /\ last.result = "BadRequest"
  /\ last.op = "delete"
  /\ Len(sheet) = 2

(***************************************************************************)
(* Cover images: candidate URL enumeration, probing and re-hosting.        *)
(* A string is a sequence of tokens here (a character, or a literal piece  *)
(* of a template), so that length, prefix and substring are those of the   *)
(* text. undefined and null are one-token sequences no text is equal to.   *)
(***************************************************************************)
TruthyS(x) == x # UndefS /\ x # NullS /\ x # <<>>

Digits == <<"0", "1", "2", "3", "4", "5", "6", "7", "8", "9">>
IsDigit(c) == \E d \in 1..10 : Digits[d] = c
\* parseInt of one character; toString of a number below 10
parseInt(c) == (CHOOSE d \in 1..10 : Digits[d] = c) - 1
toString(n) == <<Digits[n + 1]>>

\* `${x}` in a template literal
Interpolate(x) ==
  IF x = NullS THEN <<"null">> ELSE IF x = UndefS THEN <<"undefined">> ELSE x

\* encodeURIComponent over the characters of the model
encodeURIComponent(str) ==
  [k \in 1..Len(str) |-> IF str[k] = " " THEN "%20" ELSE str[k]]

\* a checksum with the weights 1..9 in place of 10..2
RECURSIVE ChecksumFromAscending(_, _)
ChecksumFromAscending(isbn9, i) ==
  IF i > 8 THEN 0
  ELSE parseInt(isbn9[i + 1]) * (i + 1) + ChecksumFromAscending(isbn9, i + 1)

\* for (let i = 0; i < 9; i++) checksum += parseInt(isbn9[i]) * (10 - i)
RECURSIVE ChecksumFrom(_, _)
ChecksumFrom(isbn9, i) ==
  IF i > 8 THEN 0
  ELSE parseInt(isbn9[i + 1]) * (10 - i) + ChecksumFrom(isbn9, i + 1)

\* a conversion that renders the check value 10 as 0
convertToIsbn10NoX(isbn13) ==
  IF Len(isbn13) # 13 \/ SubSeq(isbn13, 1, 3) # <<"9", "7", "8">>
  THEN NullS
  ELSE LET isbn9 == SubSeq(isbn13, 4, 12)
       IN IF \E i \in 1..9 : ~IsDigit(isbn9[i])
          THEN isbn9 \o <<"NaN">>
          ELSE isbn9 \o toString(((11 - (ChecksumFrom(isbn9, 0) % 11)) % 11) % 10)

\* convertToIsbn10: null unless 13 long and starting with 978; a character
\* that is no digit makes the checksum NaN, and NaN.toString() the check
convertToIsbn10(isbn13) ==
  IF Len(isbn13) # 13 \/ SubSeq(isbn13, 1, 3) # <<"9", "7", "8">>
  THEN NullS
  ELSE LET isbn9 == SubSeq(isbn13, 4, 12)
       IN IF \E i \in 1..9 : ~IsDigit(isbn9[i])
          THEN isbn9 \o <<"NaN">>
          ELSE LET checksum == ChecksumFrom(isbn9, 0)
                   check == (11 - (checksum % 11)) % 11
                   checkDigit == IF check = 10 THEN <<"X">> ELSE toString(check)
               IN isbn9 \o checkDigit

OpenLibraryCover(isbn, size) ==
  <<"https://covers.openlibrary.org/b/isbn/">> \o Interpolate(isbn)
    \o <<"-", size, ".jpg">>
AmazonCover(isbn10, size) ==
  <<"https://images-na.ssl-images-amazon.com/images/P/">> \o Interpolate(isbn10)
    \o <<".01.", size, ".jpg">>
WorldCatCover(isbn) ==
  <<"https://www.worldcat.org/title/-/oclc-/covers/cover?isbn=">>
    \o Interpolate(isbn) \o <<"&size=L">>
BookCoverLookup(title, author) ==
  <<"https://bookcover.longitood.com/bookcover?book_title=">>
    \o encodeURIComponent(title) \o <<"&author_name=">>
    \o encodeURIComponent(author) \o <<"&size=large">>

\* [...].filter(Boolean)
filterBoolean(list) == SelectSeq(list, TruthyS)

getAllCoverImageUrls(isbn, title, author, googleCoverUrl) ==
  filterBoolean(
    <<googleCoverUrl>>
    \o (IF TruthyS(isbn)
        THEN <<OpenLibraryCover(isbn, "L"), OpenLibraryCover(isbn, "M")>>
        ELSE <<>>)
    \o (IF TruthyS(isbn) /\ Len(isbn) = 13
        THEN <<AmazonCover(convertToIsbn10(isbn), "L"),
               AmazonCover(convertToIsbn10(isbn), "M")>>
        ELSE <<>>)
    \o (IF TruthyS(isbn) THEN <<WorldCatCover(isbn)>> ELSE <<>>)
    \o (IF TruthyS(title) /\ TruthyS(author)
        THEN <<BookCoverLookup(title, author)>> ELSE <<>>))

\* the imageSources of getBestCoverImage: the same list, written out again
imageSources(isbn, title, author, googleCoverUrl) ==
  filterBoolean(
    <<googleCoverUrl>>
    \o (IF TruthyS(isbn)
        THEN <<OpenLibraryCover(isbn, "L"), OpenLibraryCover(isbn, "M")>>
        ELSE <<>>)
    \o (IF TruthyS(isbn) /\ Len(isbn) = 13
        THEN <<AmazonCover(convertToIsbn10(isbn), "L"),
               AmazonCover(convertToIsbn10(isbn), "M")>>
        ELSE <<>>)
    \o (IF TruthyS(isbn) THEN <<WorldCatCover(isbn)>> ELSE <<>>)
    \o (IF TruthyS(title) /\ TruthyS(author)
        THEN <<BookCoverLookup(title, author)>> ELSE <<>>))

\* bound: length of a URL list handed to the upload functions directly
MaxUrls == 3

Isbn978 == <<"9", "7", "8", "0", "1", "4", "0", "4", "4", "9", "2", "6", "6">>
Isbn978X == <<"9", "7", "8", "0", "8", "0", "4", "4", "2", "9", "5", "7", "3">>
Isbn9780 == <<"9", "7", "8", "0", "5", "2", "1", "6", "3", "4", "4", "9", "6">>
Isbn979 == <<"9", "7", "9", "1", "0", "9", "0", "6", "3", "6", "0", "7", "1">>
Isbn10 == <<"0", "1", "4", "0", "4", "4", "9", "2", "6", "4">>
IsbnDashed == <<"9", "7", "8", "-", "0", "1", "4", "0", "4", "4", "9", "2", "6">>

\* what a provider item can carry as isbn, title, first author, thumbnail
CoverIsbns ==
  {UndefS, <<>>, Isbn978, Isbn978X, Isbn9780, Isbn979, Isbn10, IsbnDashed}
CoverTitles == {UndefS, <<"a", " ", "b">>}
CoverAuthors == {UndefS, <<"c">>}
GoogleCoverUrls == {UndefS, <<"https://books.google.com/books/content?id=x", "&zoom=1">>}

\* URL lists handed to the upload functions by other callers
PlainUrls == {<<>>, <<"https://example.org/1.jpg">>, <<"https://example.org/2.jpg">>}
UrlLists == SeqsUpTo(PlainUrls, MaxUrls)

\* the URL UploadThing returns for the file uploaded from candidate k
StorageUrl(k) == <<"https://utfs.io/f/">> \o toString(k)

\* uploadBookCoverImage: if (!imageUrl || imageUrl.trim() === "") continue
Skipped(c, k) == c.fn = "uploadBookCoverImage" /\ ~TruthyS(c.urls[k])

\* the for loop reaching candidate k of the upload list: skip, start its
\* download, or leave the loop with null; searchBooks then falls back to
\* getBestCoverImage over its own list
RECURSIVE UploadLoop(_, _)
UploadLoop(c, k) ==
  IF k > Len(c.urls)
  THEN IF c.fn = "searchBooks"
       THEN LET sources == imageSources(c.isbn, c.title, c.author, c.googleCoverUrl)
            IN IF sources = <<>>
               THEN [c EXCEPT !.pc = "done", !.i = 1, !.urls = sources]
               ELSE [c EXCEPT !.pc = "probe", !.i = 1, !.urls = sources]
       ELSE [c EXCEPT !.pc = "done", !.i = k]
  ELSE IF Skipped(c, k) THEN UploadLoop(c, k + 1)
  ELSE [c EXCEPT !.pc = "download", !.i = k]

InitCover ==
  /\ sheet = <<FullHeader>>
  /\ genCount = 0
  /\ last = [op |-> "init", id |-> Undef, result |-> "ok", access |-> {}]
  /\ procs = [p \in Procs |-> Idle]
  /\ search = NoSearch
  /\ cover = NoCover
  /\ listed = <<>>
  /\ import = NoImport

\* uploadBestAvailableImage(imageUrls) or uploadBookCoverImage(imageUrls)
UploadCover(fn, imageUrls) ==
  /\ cover.pc = "idle"
  /\ cover' = UploadLoop([NoCover EXCEPT !.fn = fn, !.urls = imageUrls], 1)
  /\ UNCHANGED <<storeVars, search>>

\* searchBooks for one Google Books item: getAllCoverImageUrls, then
\* uploadBestAvailableImage, then the getBestCoverImage fallback
ResolveCover(isbn, title, author, googleCoverUrl) ==
  /\ cover.pc = "idle"
  /\ cover' = UploadLoop(
       [NoCover EXCEPT !.fn = "searchBooks", !.isbn = isbn, !.title = title,
                       !.author = author, !.googleCoverUrl = googleCoverUrl,
                       !.urls = getAllCoverImageUrls(isbn, title, author,
                                                     googleCoverUrl)], 1)
  /\ UNCHANGED <<storeVars, search>>

\* a download whose failure ends the whole call
DownloadAborting(outcome) ==
  /\ cover.pc = "download"
  /\ IF outcome = "file"
     THEN cover' = [cover EXCEPT !.pc = "upload"]
     ELSE cover' = [cover EXCEPT !.pc = "done",
                                 !.tried = Append(@, [pos |-> cover.i,
                                                      outcome |-> "download failed"])]
  /\ UNCHANGED <<storeVars, search>>

\* the download of candidate i: fetch rejects, the response is not ok, the
\* content type is no image (each caught, the candidate yields null), or
\* a file
Download(outcome) ==
  /\ cover.pc = "download"
  /\ IF outcome = "file"
     THEN cover' = [cover EXCEPT !.pc = "upload"]
     ELSE cover' = UploadLoop(
            [cover EXCEPT !.tried = Append(@, [pos |-> cover.i,
                                               outcome |-> "download failed"])],
            cover.i + 1)
  /\ UNCHANGED <<storeVars, search>>

\* an upload after whose success the loop goes on
UploadContinuing(outcome) ==
  /\ cover.pc = "upload"
  /\ cover' = UploadLoop(
       [cover EXCEPT !.tried = Append(@, [pos |-> cover.i,
                                          outcome |-> IF outcome = "data"
                                                      THEN "stored"
                                                      ELSE "upload failed"]),
                     !.uploaded = IF outcome = "data"
                                  THEN StorageUrl(cover.i) ELSE @,
                     !.result = IF outcome = "data"
                                THEN StorageUrl(cover.i) ELSE @],
       cover.i + 1)
  /\ UNCHANGED <<storeVars, search>>

\* utapi.uploadFiles for candidate i: data with a url, no data, or a
\* rejection (caught)
Upload(outcome) ==
  /\ cover.pc = "upload"
  /\ IF outcome = "data"
     THEN cover' = [cover EXCEPT !.pc = "done",
                                 !.tried = Append(@, [pos |-> cover.i,
                                                      outcome |-> "stored"]),
                                 !.uploaded = StorageUrl(cover.i),
                                 !.result = StorageUrl(cover.i)]
     ELSE cover' = UploadLoop(
            [cover EXCEPT !.tried = Append(@, [pos |-> cover.i,
                                               outcome |-> "upload failed"])],
            cover.i + 1)
  /\ UNCHANGED <<storeVars, search>>

\* a probe loop that goes on after a valid image
ProbeContinuing(outcome) ==
  /\ cover.pc = "probe"
  /\ cover' = [cover EXCEPT
       !.pc = IF cover.i = Len(cover.urls) THEN "done" ELSE "probe",
       !.i = IF cover.i = Len(cover.urls) THEN @ ELSE @ + 1,
       !.probed = Append(@, cover.i),
       !.result = IF outcome = "image" /\ cover.result = NullS
                  THEN cover.urls[cover.i] ELSE @]
  /\ UNCHANGED <<storeVars, search>>

\* isValidImageUrl for source i of getBestCoverImage: a HEAD request
Probe(outcome) ==
  /\ cover.pc = "probe"
  /\ IF outcome = "image"
     THEN cover' = [cover EXCEPT !.pc = "done",
                                 !.probed = Append(@, cover.i),
                                 !.result = cover.urls[cover.i]]
     ELSE IF cover.i = Len(cover.urls)
     THEN cover' = [cover EXCEPT !.pc = "done", !.probed = Append(@, cover.i)]
     ELSE cover' = [cover EXCEPT !.i = @ + 1, !.probed = Append(@, cover.i)]
  /\ UNCHANGED <<storeVars, search>>

\* the caller has taken the result; the next call starts afresh
CoverReturn ==
  /\ cover.pc = "done"
  /\ cover' = NoCover
  /\ UNCHANGED <<storeVars, search>>

NextCover ==
  \/ \E fn \in {"uploadBestAvailableImage", "uploadBookCoverImage"},
        imageUrls \in UrlLists : UploadCover(fn, imageUrls)
  \/ \E isbn \in CoverIsbns, title \in CoverTitles, author \in CoverAuthors,
        googleCoverUrl \in GoogleCoverUrls :
       ResolveCover(isbn, title, author, googleCoverUrl)
  \/ \E outcome \in {"rejects", "not ok", "no image", "file"} : Download(outcome)
  \/ \E outcome \in {"data", "no data", "rejects"} : Upload(outcome)
  \/ \E outcome \in {"rejects", "not ok", "no image", "image"} : Probe(outcome)
  \/ CoverReturn

SpecCover == InitCover /\ [][NextCover]_vars

(***************************************************************************)
(* Vocabulary of the cover properties.                                     *)
(***************************************************************************)
\* the upload loop of the call has ended
Rehosted ==
  \/ cover.fn \in {"uploadBestAvailableImage", "uploadBookCoverImage"}
       /\ cover.pc = "done"
  \/ cover.fn = "searchBooks" /\ cover.pc \in {"probe", "done"}

\* the positions of the upload list the loop had to try
Candidates(fn, urls) ==
  {k \in 1..Len(urls) : ~(fn = "uploadBookCoverImage" /\ ~TruthyS(urls[k]))}

TriedPositions == {cover.tried[n].pos : n \in 1..Len(cover.tried)}
StoredEntries == {n \in 1..Len(cover.tried) : cover.tried[n].outcome = "stored"}

\* the list the upload loop ran over (the probe phase reuses cover.urls)
UploadList ==
  IF cover.fn = "searchBooks"
  THEN getAllCoverImageUrls(cover.isbn, cover.title, cover.author,
                            cover.googleCoverUrl)
  ELSE cover.urls

(***************************************************************************)
(* C15: uploadBestAvailableImage tries the candidates in list order and    *)
(* returns the storage URL of the earliest one whose download, content     *)
(* type check and upload all succeed; earlier failures are caught, and the *)
(* result is null when no candidate succeeds or the list is empty.         *)
(***************************************************************************)
C15_EarliestSuccessfulCandidate ==
  (Rehosted /\ cover.fn \in {"uploadBestAvailableImage", "searchBooks"}) =>
    /\ \A n \in 1..Len(cover.tried) : cover.tried[n].pos = n
    /\ Len(cover.tried) <= Len(UploadList)
    /\ IF StoredEntries = {}
       THEN /\ cover.uploaded = NullS
            /\ Len(cover.tried) = Len(UploadList)
       ELSE /\ StoredEntries = {Len(cover.tried)}
            /\ cover.uploaded = StorageUrl(Len(cover.tried))

\* the first candidate failed to download, the second failed to upload, and
\* the third was stored and returned
C15_Witness ==
  /\ Rehosted /\ cover.fn = "uploadBestAvailableImage"
  /\ Len(cover.tried) = 3
  /\ cover.tried[1].outcome = "download failed"
  /\ cover.tried[2].outcome = "upload failed"
  /\ cover.uploaded = StorageUrl(3)

(***************************************************************************)
(* C16: within one call, each candidate is attempted at most once, at most *)
(* one upload succeeds, and after a successful upload no later candidate   *)
(* is downloaded or uploaded.                                              *)
(***************************************************************************)
C16_NothingAfterSuccess ==
  /\ \A m, n \in 1..Len(cover.tried) :
       m < n => cover.tried[m].pos < cover.tried[n].pos
  /\ TriedPositions \subseteq Candidates(cover.fn, UploadList)
  /\ Cardinality(StoredEntries) <= 1
  /\ StoredEntries # {} =>
       /\ StoredEntries = {Len(cover.tried)}
       /\ cover.pc = "done"
       /\ cover.probed = <<>>

\* in uploadBookCoverImage, after a skipped blank URL, an upload succeeded
\* for a candidate that another candidate follows in the list
C16_Witness ==
  /\ cover.fn = "uploadBookCoverImage"
  /\ cover.pc = "done"
  /\ StoredEntries # {}
  /\ 1 \notin Candidates(cover.fn, cover.urls)
  /\ cover.tried[Len(cover.tried)].pos < Len(cover.urls)
  /\ Len(cover.urls) \in Candidates(cover.fn, cover.urls)

HasIsbn10(isbn) ==
  /\ isbn # UndefS /\ Len(isbn) = 13
  /\ \A k \in 1..13 : IsDigit(isbn[k])
  /\ SubSeq(isbn, 1, 3) = <<"9", "7", "8">>

\* the ISBN-10 of such an ISBN-13: its digits 4..12 and the check character
\* c with 10 d1 + 9 d2 + ... + 2 d9 + c divisible by 11 (X for 10)
Isbn10Of(isbn) ==
  LET d == [k \in 1..9 |-> parseInt(isbn[k + 3])]
      sum == 10 * d[1] + 9 * d[2] + 8 * d[3] + 7 * d[4] + 6 * d[5]
               + 5 * d[6] + 4 * d[7] + 3 * d[8] + 2 * d[9]
      c == CHOOSE c \in 0..10 : (sum + c) % 11 = 0
  IN SubSeq(isbn, 4, 12) \o (IF c = 10 THEN <<"X">> ELSE toString(c))

IsAmazonUrl(url) ==
  url[1] = "https://images-na.ssl-images-amazon.com/images/P/"

\* the text of the URL spells a missing or failed value
EmbedsMissing(url) ==
  \E k \in 1..Len(url) : url[k] \in {"null", "undefined", "NaN"}

\* the enumeration of the resolved item has been computed
Enumerated == cover.fn = "searchBooks"

(***************************************************************************)
(* C18: getAllCoverImageUrls includes the Amazon (ISBN-10 keyed) URLs only *)
(* when the ISBN-13 to ISBN-10 conversion succeeds, and no URL it returns  *)
(* embeds null, undefined or another failed value.                         *)
(***************************************************************************)
C18_AmazonOnlyWithIsbn10 ==
  Enumerated =>
    LET urls == getAllCoverImageUrls(cover.isbn, cover.title, cover.author,
                                     cover.googleCoverUrl)
    IN /\ (\E k \in 1..Len(urls) : IsAmazonUrl(urls[k])) => HasIsbn10(cover.isbn)
       /\ \A k \in 1..Len(urls) : ~EmbedsMissing(urls[k])

\* the priority list the enumeration is to return
PriorityList(isbn, title, author, known) ==
  (IF TruthyS(known) THEN <<known>> ELSE <<>>)
  \o (IF TruthyS(isbn)
      THEN <<OpenLibraryCover(isbn, "L"), OpenLibraryCover(isbn, "M")>>
      ELSE <<>>)
  \o (IF HasIsbn10(isbn)
      THEN <<AmazonCover(Isbn10Of(isbn), "L"), AmazonCover(Isbn10Of(isbn), "M")>>
      ELSE <<>>)
  \o (IF TruthyS(isbn) THEN <<WorldCatCover(isbn)>> ELSE <<>>)
  \o (IF TruthyS(title) /\ TruthyS(author)
      THEN <<BookCoverLookup(title, author)>> ELSE <<>>)

(***************************************************************************)
(* C19: getAllCoverImageUrls returns, in this order, the known cover URL,  *)
(* the Open Library URL large then medium, the Amazon URLs large then      *)
(* medium, the WorldCat URL, and the title+author lookup URL; a tier whose *)
(* input is missing contributes nothing.                                   *)
(***************************************************************************)
C19_FixedPriorityOrder ==
  Enumerated =>
    getAllCoverImageUrls(cover.isbn, cover.title, cover.author,
                         cover.googleCoverUrl)
      = PriorityList(cover.isbn, cover.title, cover.author, cover.googleCoverUrl)

(***************************************************************************)
(* C20 as stated: convertToIsbn10 of 9780140449266 is 014044926X.          *)
(***************************************************************************)
C20_Original ==
  (Enumerated /\ cover.isbn = Isbn978) =>
    convertToIsbn10(cover.isbn)
      = <<"0", "1", "4", "0", "4", "4", "9", "2", "6", "X">>

(***************************************************************************)
(* C20, amended: convertToIsbn10 of 9780140449266 is 0140449264, and that  *)
(* is the text the Amazon cover URLs of this ISBN carry.                   *)
(***************************************************************************)
C20_LiteralConversion ==
  (Enumerated /\ cover.isbn = Isbn978) =>
    /\ convertToIsbn10(cover.isbn)
         = <<"0", "1", "4", "0", "4", "4", "9", "2", "6", "4">>
    /\ \E k \in 1..Len(UploadList) :
         UploadList[k] = AmazonCover(<<"0", "1", "4", "0", "4", "4", "9", "2", "6", "4">>, "L")

\* the cover of an item with ISBN 9780140449266 is being resolved
C20_Witness ==
  /\ Enumerated /\ cover.isbn = Isbn978
  /\ cover.pc = "download" /\ cover.i = 3
  /\ cover.urls[3] = AmazonCover(Isbn10, "L")

\* sum of digit[i] * (10 - i) over the digits 4..12 of a 13-digit input
WeightedSum(isbn) ==
  LET d == [k \in 1..9 |-> parseInt(isbn[k + 3])]
  IN 10 * d[1] + 9 * d[2] + 8 * d[3] + 7 * d[4] + 6 * d[5]
       + 5 * d[6] + 4 * d[7] + 3 * d[8] + 2 * d[9]

(***************************************************************************)
(* C21: for a 13-digit input beginning with 978, convertToIsbn10 returns   *)
(* the 10 characters made of digits 4 to 12 and the check character        *)
(* (11 - (weighted sum mod 11)) mod 11, X for 10, which is the character   *)
(* the ISBN-10 checksum asks for; for an input whose length is not 13 or   *)
(* that does not begin with 978 it returns null.                           *)
(***************************************************************************)
C21_ConversionFormula ==
  (Enumerated /\ cover.isbn # UndefS) =>
    LET isbn == cover.isbn
        out == convertToIsbn10(isbn)
        check == (11 - (WeightedSum(isbn) % 11)) % 11
    IN /\ HasIsbn10(isbn) =>
            /\ Len(out) = 10
            /\ SubSeq(out, 1, 9) = SubSeq(isbn, 4, 12)
            /\ out[10] = (IF check = 10 THEN "X" ELSE Digits[check + 1])
            /\ out = Isbn10Of(isbn)
       /\ (Len(isbn) # 13 \/ SubSeq(isbn, 1, 3) # <<"9", "7", "8">>) =>
            out = NullS

\* an item whose ISBN converts with the check character X is being resolved
C21_Witness ==
  /\ Enumerated /\ cover.isbn = Isbn978X
  /\ cover.pc = "download" /\ cover.i = 3
  /\ cover.urls[3] =
       AmazonCover(<<"0", "8", "0", "4", "4", "2", "9", "5", "7", "X">>, "L")

(***************************************************************************)
(* The table under reads, adds by both add routes, updates and the id      *)
(* backfill, with every forsale value a request can carry.                 *)
(***************************************************************************)
\* the forsale values of a request body: absent, booleans, sheet strings
ForsaleInputs == {Undef, BoolFalse, BoolTrue, "FALSE", "TRUE"}

\* complete records with each forsale value
TableBooks ==
  {[isbn |-> "i1", title |-> "t1", author |-> "a1", forsale |-> f] :
     f \in ForsaleInputs}

\* what the legacy add route is sent: a complete record, one without author,
\* one without title and author
LegacyBooks ==
  {[isbn |-> "i1", title |-> "t1", author |-> "a1", forsale |-> Undef],
   [isbn |-> "i1", title |-> "t1", author |-> Undef, forsale |-> Undef],
   [isbn |-> "i1", title |-> Undef, author |-> Undef, forsale |-> Undef]}

\* the cell at column c of row i set to v (values.batchUpdate of one cell)
SetCell(sh, i, c, v) ==
  LET old == sh[i]
      wide == IF Len(old) >= c THEN old
              ELSE old \o [k \in 1..(c - Len(old)) |-> ""]
  IN [sh EXCEPT ![i] = TrimRow([wide EXCEPT ![c] = v])]

\* every row with a title and an author, whatever its id
RowsToBackfillAll(sh) ==
  IF Len(sh) = 0 \/ idColumnIndex(sh[1]) = 0 THEN <<>>
  ELSE SelectSeq([i \in 1..(Len(sh) - 1) |-> i + 1],
         LAMBDA i :
           /\ Truthy(FieldOf(sh[1], sh[i], "title"))
           /\ Truthy(FieldOf(sh[1], sh[i], "author")))

\* addIdsToExistingBooks: the rows it gives an id to, in row order
RowsToBackfill(sh) ==
  IF Len(sh) = 0 \/ idColumnIndex(sh[1]) = 0 THEN <<>>
  ELSE SelectSeq([i \in 1..(Len(sh) - 1) |-> i + 1],
         LAMBDA i :
           /\ Truthy(FieldOf(sh[1], sh[i], "title"))
           /\ Truthy(FieldOf(sh[1], sh[i], "author"))
           /\ LET id == FieldOf(sh[1], sh[i], "id")
              IN ~Truthy(id) \/ Trim(id) = "")

RECURSIVE ApplyUpdates(_, _, _, _)
ApplyUpdates(sh, targets, k, n) ==
  IF k > Len(targets) THEN sh
  ELSE ApplyUpdates(SetCell(sh, targets[k], idColumnIndex(sh[1]),
                            generateBookId(n + k)),
                    targets, k + 1, n)

\* addIdsToExistingBooks after n identifiers were generated: the sheet after
\* its batchUpdate, and the number of values.batchUpdate requests
addIdsToExistingBooks(sh, n) ==
  LET targets == RowsToBackfill(sh)
  IN [sheet |-> ApplyUpdates(sh, targets, 1, n),
      updates |-> Len(targets),
      writes |-> IF Len(targets) > 0 THEN 1 ELSE 0]

\* a read that persists the identifiers it synthesizes
ListLibraryRecordsWritingBack(epoch) ==
  /\ listed' = listLibrary(sheet, epoch)
  /\ sheet' = addIdsToExistingBooks(sheet, 0).sheet
  /\ last' = [op |-> "list", id |-> Undef, result |-> "ok",
              access |-> {"read"}]
  /\ UNCHANGED <<genCount, procs, search, cover, import>>

\* GET of the library list (part_007): getBooks, forsale made a boolean
ListLibraryRecords(epoch) ==
  /\ listed' = listLibrary(sheet, epoch)
  /\ last' = [op |-> "list", id |-> Undef, result |-> "ok",
              access |-> {"read"}]
  /\ UNCHANGED <<sheet, genCount, procs, search, cover, import>>

\* POST /api/books/add, book object format: addBook with an empty id cell
\* and, of the columns of the model, isbn, title and author
AddLegacyRecord(book) ==
  /\ Len(sheet) <= MaxRows
  /\ sheet' = addBook(sheet, <<"", OrEmpty(book.isbn), OrEmpty(book.title),
                              OrEmpty(book.author)>>)
  /\ last' = [op |-> "addLegacy", id |-> Undef, result |-> "ok",
              access |-> {"write"}]
  /\ listed' = <<>>
  /\ UNCHANGED <<genCount, procs, search, cover, import>>

\* the maintenance operation addIdsToExistingBooks
BackfillMissingIds ==
  LET r == addIdsToExistingBooks(sheet, genCount)
  IN /\ genCount + r.updates <= MaxGen
     /\ sheet' = r.sheet
     /\ genCount' = genCount + r.updates
     /\ last' = [op |-> "backfill", id |-> Undef, result |-> "ok",
                 access |-> IF r.writes > 0 THEN {"read", "write"} ELSE {"read"}]
     /\ listed' = <<>>
     /\ UNCHANGED <<procs, search, cover, import>>

InitTable ==
  /\ sheet \in InitSheets
  /\ genCount = 0
  /\ last = [op |-> "init", id |-> Undef, result |-> "ok", access |-> {}]
  /\ procs = [p \in Procs |-> Idle]
  /\ search = NoSearch
  /\ cover = NoCover
  /\ listed = <<>>
  /\ import = NoImport

NextTable ==
  \/ \E epoch \in 1..2 : ListLibraryRecords(epoch)
  \/ \E b \in TableBooks : AddLibraryRecord(WithId(b, Undef))
  \/ \E b \in LegacyBooks : AddLegacyRecord(b)
  \/ \E b \in TableBooks, id \in {GenPool[n] : n \in 1..MaxGen} :
       UpdateLibraryRecord(WithId(b, id))
  \/ BackfillMissingIds

SpecTable == InitTable /\ [][NextTable]_vars

\* the latest request was a read of the list, answered in `listed`
Listing == last.op = "list"

\* what the table stores as forsale for the row of a listed record (Undef
\* when the table has no forsale column)
StoredForsale(b) == FieldOf(sheet[1], sheet[b.sheetRowIndex], "forsale")

(***************************************************************************)
(* C22: on read, a record with no stored forsale value and a record stored *)
(* as TRUE are returned as for sale; only a record stored as FALSE is      *)
(* returned as not for sale.                                               *)
(***************************************************************************)
C22_ForsaleDefaultsToTrue ==
  Listing =>
    \A k \in 1..Len(listed) :
      listed[k].forsale = (StoredForsale(listed[k]) # "FALSE")

\* a cell with nothing in it: absent, empty or white space
Blank(x) == ~Truthy(x) \/ Trim(x) = ""

\* the sheet rows (1-based, header = row 1) the listed records come from
ListedRows == {listed[k].sheetRowIndex : k \in 1..Len(listed)}

TitleOf(i) == FieldOf(sheet[1], sheet[i], "title")
AuthorOf(i) == FieldOf(sheet[1], sheet[i], "author")

\* the data rows of the table
DataRows == 2..Len(sheet)

(***************************************************************************)
(* C23 as stated: the list has one record for every data row except the    *)
(* rows missing both title and author (a row is skipped only when both     *)
(* are blank), and the header row is never returned.                       *)
(***************************************************************************)
C23_Original ==
  Listing =>
    /\ ListedRows = {i \in DataRows : ~(Blank(TitleOf(i)) /\ Blank(AuthorOf(i)))}
    /\ Len(listed) = Cardinality(ListedRows)

(***************************************************************************)
(* C23, amended: the list has exactly one record for every data row with   *)
(* a non-blank title and a non-blank author, in row order; a row missing   *)
(* either of them is skipped, and the header row is never returned.        *)
(***************************************************************************)
C23_OneRecordPerCompleteRow ==
  Listing =>
    /\ ListedRows = {i \in DataRows : ~Blank(TitleOf(i)) /\ ~Blank(AuthorOf(i))}
    /\ Len(listed) = Cardinality(ListedRows)
    /\ 1 \notin ListedRows
    /\ \A j, k \in 1..Len(listed) :
         j < k => listed[j].sheetRowIndex < listed[k].sheetRowIndex

\* a list read of a table with a listed row and a row with a title and no
\* author, which is skipped
C23_Witness ==
  /\ Listing
  /\ Len(listed) > 0
  /\ \E i \in DataRows :
       /\ ~Blank(TitleOf(i)) /\ Blank(AuthorOf(i))
       /\ i \notin ListedRows

\* the id cell of sheet row i in table sh
IdCellOf(sh, i) == FieldOf(sh[1], sh[i], "id")

(***************************************************************************)
(* C24: listRecords performs no write: the table is the same before and    *)
(* after every read, and for a row with a blank id the id is synthesized   *)
(* only in the returned copy, the row's id cell staying blank.             *)
(***************************************************************************)
C24_ReadWritesNothing ==
  [][last'.op = "list" =>
       /\ sheet' = sheet
       /\ genCount' = genCount
       /\ last'.access = {"read"}
       /\ \A k \in 1..Len(listed') :
            /\ ~Blank(listed'[k].id)
            /\ Blank(IdCellOf(sheet, listed'[k].sheetRowIndex)) =>
                 Blank(IdCellOf(sheet', listed'[k].sheetRowIndex))]_vars

\* a list read that returned a record with an identifier for a row whose id
\* cell is blank in the table
C24_Witness ==
  /\ Listing
  /\ \E k \in 1..Len(listed) :
       /\ sheet[1] = FullHeader
       /\ Blank(IdCellOf(sheet, listed[k].sheetRowIndex))
       /\ ~Blank(listed[k].id)

\* row i of table sh has a non-blank title and a non-blank author
Complete(sh, i) ==
  /\ ~Blank(FieldOf(sh[1], sh[i], "title"))
  /\ ~Blank(FieldOf(sh[1], sh[i], "author"))

\* from table sh to table sh2 only id cells of rows whose id was blank
\* changed: same rows, same header, every other cell as before
OnlyBlankIdsFilled(sh, sh2) ==
  /\ Len(sh2) = Len(sh)
  /\ Len(sh) > 0 => sh2[1] = sh[1]
  /\ \A i \in 2..Len(sh) :
       \A c \in 1..Max(Len(sh[i]), Len(sh2[i])) :
         Cell(sh2[i], c) # Cell(sh[i], c) =>
           /\ c = idColumnIndex(sh[1])
           /\ Blank(Cell(sh[i], c))

\* the maintenance operation has just run
Backfilled == last.op = "backfill"

(***************************************************************************)
(* C25 as stated: backfillMissingIds issues at most one batched write,     *)
(* after which every row with non-blank title and author has a non-blank   *)
(* id; it changes only id cells of rows whose id was blank.                *)
(***************************************************************************)
C25_Original ==
  [][last'.op = "backfill" =>
       /\ addIdsToExistingBooks(sheet, genCount).writes <= 1
       /\ \A i \in 2..Len(sheet') :
            Complete(sheet', i) => ~Blank(IdCellOf(sheet', i))
       /\ OnlyBlankIdsFilled(sheet, sheet')]_vars

(***************************************************************************)
(* C25, amended: on a table whose header has an id column,                 *)
(* backfillMissingIds issues at most one batched write, after which every  *)
(* row with non-blank title and author has a non-blank id, and it changes  *)
(* only id cells of rows whose id was blank; on an empty table or a table  *)
(* with no id column it writes nothing.                                    *)
(***************************************************************************)
C25_BackfillWithIdColumn ==
  [][last'.op = "backfill" =>
       /\ addIdsToExistingBooks(sheet, genCount).writes <= 1
       /\ OnlyBlankIdsFilled(sheet, sheet')
       /\ IF Len(sheet) > 0 /\ idColumnIndex(sheet[1]) > 0
          THEN \A i \in 2..Len(sheet') :
                 Complete(sheet', i) => ~Blank(IdCellOf(sheet', i))
          ELSE sheet' = sheet /\ "write" \notin last'.access]_vars

\* a backfill that wrote: the table has an id column and two data rows,
\* each complete row now with an id
C25_Witness ==
  /\ Backfilled
  /\ "write" \in last.access
  /\ Len(sheet) = 3
  /\ \E i \in DataRows : Complete(sheet, i) /\ ~Blank(IdCellOf(sheet, i))

\* the forsale value of a request means "not for sale"
EffectiveFalse(forsale) == forsale \in {BoolFalse, "FALSE"}

\* row i of table sh stores and reads back the forsale value of the request
ForsaleKept(sh, i, forsale) ==
  /\ FieldOf(sh[1], sh[i], "forsale") =
       (IF EffectiveFalse(forsale) THEN "FALSE" ELSE "TRUE")
  /\ \A k \in 1..Len(listLibrary(sh, 1)) :
       listLibrary(sh, 1)[k].sheetRowIndex = i =>
         listLibrary(sh, 1)[k].forsale = ~EffectiveFalse(forsale)

(***************************************************************************)
(* C29: a record written with an effective-false forsale (boolean false or *)
(* the string FALSE) is persisted as FALSE and read back as not for sale;  *)
(* a record written with an effective-true forsale is persisted as TRUE    *)
(* and read back as for sale.                                              *)
(***************************************************************************)
C29_ForsaleRoundTrip ==
  [][/\ \A b \in TableBooks :
          AddLibraryRecord(WithId(b, Undef)) =>
            ForsaleKept(sheet', Len(sheet'), b.forsale)
     /\ \A b \in TableBooks, id \in {GenPool[n] : n \in 1..MaxGen} :
          (UpdateLibraryRecord(WithId(b, id)) /\ last'.result = "ok") =>
            \A i \in ChangedRows(sheet, sheet') :
              ForsaleKept(sheet', i, b.forsale)]_vars

\* the sheet row of the record updateBookById finds for bookId (0: none)
FoundRow(sh, bookId) ==
  LET books == getBooks(sh, 1)
      k == findIndex(books, bookId)
  IN IF k = 0 THEN 0 ELSE books[k].sheetRowIndex

\* the row a full replace by bookData leaves: each column the field of the
\* record, the empty string for a field the record does not have
ReplacedRow(bookData) ==
  TrimRow(<<OrEmpty(bookData.id), OrEmpty(bookData.isbn),
            OrEmpty(bookData.title), OrEmpty(bookData.author),
            IF bookData.forsale = Undef THEN ""
            ELSE forsaleCell(bookData.forsale)>>)

(***************************************************************************)
(* C26: updateRecord is a full-row replace: after a successful update      *)
(* every column of the target row equals the corresponding field of the    *)
(* incoming record, and every field not present on the incoming record is  *)
(* written as the empty string.                                            *)
(***************************************************************************)
C26_UpdateReplacesWholeRow ==
  [][\A bookData \in UpdateInputs :
       (UpdateLibraryRecord(bookData) /\ last'.result = "ok") =>
         LET t == FoundRow(sheet, bookData.id)
         IN /\ t # 0
            /\ RowAt(sheet', t) = ReplacedRow(bookData)]_vars

\* the human-readable language names of a Book Candidate
LanguageNames ==
  {"English", "Dutch", "German", "French", "Spanish", "Italian", "Unknown"}

(***************************************************************************)
(* C27: every Book Candidate a search returns has its language normalized  *)
(* to one of English, Dutch, German, French, Spanish, Italian or Unknown,  *)
(* whatever language code the provider supplied.                           *)
(***************************************************************************)
C27_LanguageNormalized ==
  Answered =>
    \A k \in 1..Len(search.out) : search.out[k].language \in LanguageNames

(***************************************************************************)
(* addBookWithId as the sequence of requests it awaits, for two calls in   *)
(* flight: values.get of the header row, the schema step (values.update of *)
(* a full header, or insertDimension followed by values.update of A1), and *)
(* values.append of the row.                                               *)
(***************************************************************************)
\* the records the concurrent adds send: no id, so that one is generated
AddBooks == {WithId(b, Undef) : b \in {f \in BookFields : HasTitleAndAuthor(f)}}

\* addBookWithId up to its await of values.get("Sheet1!1:1"): the id is
\* generated and the schema step chosen from the headers read
AddRead(p, book) ==
  /\ procs[p].pc = "idle"
  /\ genCount < MaxGen
  /\ Len(sheet) <= MaxRows
  /\ LET headers == IF Len(sheet) = 0 THEN <<>> ELSE sheet[1]
         next == IF idColumnIndex(headers) # 0 THEN "append"
                 ELSE IF Len(headers) = 0 THEN "writeHeaders"
                 ELSE "insertDimension"
     IN procs' = [procs EXCEPT ![p] =
                    [pc |-> next, id |-> generateBookId(genCount + 1),
                     bookData |-> book, row |-> 0]]
  /\ genCount' = genCount + 1
  /\ listed' = <<>>
  /\ UNCHANGED <<sheet, last, search, cover, import>>

\* the sheet was empty: values.update of A1:O1 with the full header
AddWriteHeaders(p) ==
  /\ procs[p].pc = "writeHeaders"
  /\ sheet' = valuesUpdate(sheet, 1, FullHeader)
  /\ procs' = [procs EXCEPT ![p].pc = "append"]
  /\ UNCHANGED <<genCount, last, search, cover, import, listed>>

\* the header had no id: batchUpdate insertDimension of column 0
AddInsertDimension(p) ==
  /\ procs[p].pc = "insertDimension"
  /\ sheet' = insertDimension(sheet)
  /\ procs' = [procs EXCEPT ![p].pc = "writeId"]
  /\ UNCHANGED <<genCount, last, search, cover, import, listed>>

\* values.update of A1 with "id"
AddWriteId(p) ==
  /\ procs[p].pc = "writeId"
  /\ sheet' = valuesUpdate(sheet, 1, <<"id">>)
  /\ procs' = [procs EXCEPT ![p].pc = "append"]
  /\ UNCHANGED <<genCount, last, search, cover, import, listed>>

\* addBook: values.append of the row, and the return of bookWithId
AddAppend(p) ==
  /\ procs[p].pc = "append"
  /\ sheet' = addBook(sheet, bookValues(procs[p].id, procs[p].bookData))
  /\ last' = [op |-> "add", id |-> procs[p].id, result |-> "ok",
              access |-> TableAccess("ok")]
  /\ procs' = [procs EXCEPT ![p] = Idle]
  /\ UNCHANGED <<genCount, search, cover, import, listed>>

NextAdd ==
  \E p \in Procs :
    \/ \E book \in AddBooks : AddRead(p, book)
    \/ AddWriteHeaders(p)
    \/ AddInsertDimension(p)
    \/ AddWriteId(p)
    \/ AddAppend(p)

SpecAdd == InitTable /\ [][NextAdd]_vars

\* the columns of the header named id
IdColumns(headers) == {j \in 1..Len(headers) : toLowerCase(headers[j]) = "id"}

\* every add that was started has returned, and one has
AddsReturned == last.op = "add" /\ \A p \in Procs : procs[p].pc = "idle"

\* the generated identifiers, which only an appended row can hold
GeneratedIds == {GenPool[n] : n \in 1..Len(GenPool)}

(***************************************************************************)
(* C28: after any sequence or interleaving of addBookWithId calls,         *)
(* including two calls that both start on a table with no id column, the   *)
(* header row has exactly one id column, it is the leading column, and     *)
(* every appended row holds its id in that column.                         *)
(***************************************************************************)
C28_OneLeadingIdColumn ==
  AddsReturned =>
    /\ IdColumns(sheet[1]) = {1}
    /\ \A i \in 2..Len(sheet) :
         \A c \in 1..Len(sheet[i]) :
           sheet[i][c] \in GeneratedIds => c = 1

(***************************************************************************)
(* The CSV import (src/src/app/api/books/import/route.ts): the file is     *)
(* parsed, the store is listed once, and the parsed books are processed    *)
(* one after the other. The cover upload of each book (lines 230-264)      *)
(* touches no column of the model.                                         *)
(***************************************************************************)
MaxCsv == 3

\* cleanISBN: the Excel wrapping ="..." removed
Unwrapped == ("=\"i1\"" :> "i1") @@ ("=\"i2\"" :> "i2")
cleanISBN(isbn) ==
  IF ~Truthy(isbn) THEN ""
  ELSE IF isbn \in DOMAIN Unwrapped THEN Unwrapped[isbn] ELSE isbn

\* the rows of a Goodreads export, of their 24 fields title, author, isbn and
\* isbn13
CsvRows ==
  { [title |-> "t2", author |-> "a1", isbn |-> "", isbn13 |-> "i1"],
    [title |-> "t3", author |-> "a1", isbn |-> "i9", isbn13 |-> "=\"i1\""],
    [title |-> "T1", author |-> "a1", isbn |-> "=\"i2\"", isbn13 |-> ""],
    [title |-> "", author |-> "a1", isbn |-> "", isbn13 |-> "i1"] }

CsvFiles == SeqsUpTo(CsvRows, MaxCsv)

\* parseCSVBook returns null for a row without title or author
parsesToNull(row) == ~Truthy(row.title) \/ ~Truthy(row.author)

\* parseCSVBook for the other rows: isbn13 before isbn
parseCSVBook(row) ==
  [title |-> Trim(row.title), author |-> Trim(row.author),
   isbn |-> IF Truthy(cleanISBN(row.isbn13)) THEN cleanISBN(row.isbn13)
            ELSE cleanISBN(row.isbn)]

\* parseCSV: the books of the rows that parse
parseCSV(rows) ==
  LET parsed == SelectSeq(rows, LAMBDA row : ~parsesToNull(row))
  IN [k \in 1..Len(parsed) |-> parseCSVBook(parsed[k])]

\* the ISBNs of the listed books that have one
isbnsOf(books) ==
  {books[k].isbn : k \in {j \in 1..Len(books) : Truthy(books[j].isbn)}}

\* title|author, lower case
titleAuthorKey(book) ==
  <<toLowerCase(OrEmpty(book.title)), toLowerCase(OrEmpty(book.author))>>

isDuplicateByTitle(existingBooks, book) ==
  \E k \in 1..Len(existingBooks) :
    titleAuthorKey(existingBooks[k]) = titleAuthorKey(book)

\* an import that forgets the ISBNs of the books it added
rememberNothing(isbns, book) == isbns

\* existingISBNs.add(book.isbn) for a book with an ISBN
remember(isbns, book) ==
  IF Truthy(book.isbn) THEN isbns \cup {book.isbn} ELSE isbns

\* the store requests open while no import runs
ImportIdle == import.pc = "idle"

\* POST up to the stream: parse, 400 without books, else getBooks
ImportStart(rows) ==
  /\ ImportIdle
  /\ listed' = <<>>
  /\ IF Len(parseCSV(rows)) = 0
     THEN /\ last' = [op |-> "import", id |-> Undef, result |-> "BadRequest",
                      access |-> TableAccess("BadRequest")]
          /\ UNCHANGED import
     ELSE /\ import' = [NoImport EXCEPT
                          !.pc = "running",
                          !.parsedBooks = parseCSV(rows),
                          !.existingBooks = getBooks(sheet, 1),
                          !.existingISBNs = isbnsOf(getBooks(sheet, 1))]
          /\ last' = [op |-> "import", id |-> Undef, result |-> "started",
                      access |-> {"read"}]
  /\ UNCHANGED <<sheet, genCount, procs, search, cover>>

\* one round of the loop over the parsed books; addFails: addBookWithId throws
ImportBook(addFails) ==
  /\ import.pc = "running"
  /\ Len(import.parsedBooks) > 0
  /\ LET book == Head(import.parsedBooks)
         rest == Tail(import.parsedBooks)
         bookData == [id |-> Undef, isbn |-> OrEmpty(book.isbn),
                      title |-> OrEmpty(book.title),
                      author |-> OrEmpty(book.author), forsale |-> BoolTrue]
         entry(outcome) == [isbn |-> book.isbn, title |-> book.title,
                            author |-> book.author, outcome |-> outcome]
     IN IF (Truthy(book.isbn) /\ book.isbn \in import.existingISBNs)
           \/ isDuplicateByTitle(import.existingBooks, book)
        THEN /\ ~addFails
             /\ import' = [import EXCEPT
                             !.parsedBooks = rest,
                             !.skipped = @ + 1,
                             !.duplicates = Append(@, book.title),
                             !.log = Append(@, entry("duplicate"))]
             /\ UNCHANGED <<sheet, genCount>>
        ELSE IF addFails
        THEN /\ import' = [import EXCEPT
                             !.parsedBooks = rest,
                             !.errors = @ + 1,
                             !.log = Append(@, entry("error"))]
             /\ UNCHANGED <<sheet, genCount>>
        ELSE /\ genCount < MaxGen
             /\ sheet' = addBookWithId(sheet, generateBookId(genCount + 1),
                                       bookData).sheet
             /\ genCount' = genCount + 1
             /\ import' = [import EXCEPT
                             !.parsedBooks = rest,
                             !.added = @ + 1,
                             !.existingISBNs = remember(@, book),
                             !.log = Append(@, entry("added"))]
  /\ UNCHANGED <<last, procs, search, cover, listed>>

\* sendResult(result) and controller.close()
ImportFinish ==
  /\ import.pc = "running"
  /\ Len(import.parsedBooks) = 0
  /\ import' = [import EXCEPT !.pc = "done"]
  /\ last' = [op |-> "import", id |-> Undef, result |-> "ok",
              access |-> {"read", "write"}]
  /\ UNCHANGED <<sheet, genCount, procs, search, cover, listed>>

\* the response was read: the handler is gone
ImportReturn ==
  /\ import.pc = "done"
  /\ import' = NoImport
  /\ UNCHANGED <<sheet, genCount, last, procs, search, cover, listed>>

\* the books the store holds before an import: complete ones, and one with
\* an ISBN and no title, which getBooks does not list
StoreBooks ==
  { [isbn |-> "i1", title |-> "t1", author |-> "a1", forsale |-> Undef],
    [isbn |-> "i2", title |-> Undef, author |-> "a1", forsale |-> Undef] }

NextImport ==
  \/ \E b \in StoreBooks : ImportIdle /\ AddLibraryRecord(WithId(b, Undef))
  \/ \E rows \in CsvFiles : ImportStart(rows)
  \/ \E addFails \in BOOLEAN : ImportBook(addFails)
  \/ ImportFinish
  \/ ImportReturn

SpecImport == InitTable /\ [][NextImport]_vars

\* the ISBNs of the records the store listed when the import started
StartIsbns == isbnsOf(import.existingBooks)

\* how many of the listed books carry the ISBN
CountIsbn(books, isbn) ==
  Cardinality({k \in 1..Len(books) : books[k].isbn = isbn})

\* the entry k of the import's log repeats the ISBN of a record of the store
\* at the start of the import, or of a book the import added before
RepeatsStart(k) ==
  Truthy(import.log[k].isbn) /\ import.log[k].isbn \in StartIsbns
RepeatsEarlier(k) ==
  /\ Truthy(import.log[k].isbn)
  /\ \E j \in 1..(k - 1) :
       /\ import.log[j].outcome = "added"
       /\ import.log[j].isbn = import.log[k].isbn

\* the log entries with the outcome, in order
WithOutcome(outcome) ==
  SelectSeq(import.log, LAMBDA e : e.outcome = outcome)

====
